---- MODULE Spec2Model ----
(***************************************************************************)
(* Model of discovery_gtr: the GtR -> S3 workflow of                       *)
(* src/discovery_gtr/pipeline/gtr_to_s3.py (main_request, get_total_pages, *)
(* get_s3_key, upload_data_to_s3, log_percentage_complete, gtr_to_s3,      *)
(* local_wrapper) and the stand-alone call of main_request in              *)
(* src/discovery_gtr/getters/unused_gtr_code.py.                           *)
(***************************************************************************)
EXTENDS Integers, Sequences, FiniteSets, TLC

\* ------------------------------------------------------------------ bounds
\* Largest totalPages the modelled server reports in a discovery response.
MaxPages == 2
\* Largest length of the ENDPOINTS list handed to local_wrapper.
MaxEndpoints == 2
\* Largest max_retries argument tried on the stand-alone main_request call.
MaxRetriesArg == 3
\* largest total_pages of a progress log followed on its own
MaxProgressPages == 101

\* --------------------------------------------------------- program values
\* Default of the max_retries parameter of main_request.
DefaultMaxRetries == 3

\* Retry(status_forcelist=[500, 502, 503, 504]).
status_forcelist == {500, 502, 503, 504}

\* prev_percentage = None before the first page; percentages are >= 0.
NoPercentage == -1

\* Python's None as the value of r, and as the value item.get(header) yields
\* for a field the record lacks (JSON null once serialised).
None == <<>>
NoneValue == "None"

\* DESTINATION_S3_PATH (environment).
DESTINATION_S3_PATH == "data/"

ENDPOINT_HEADERS ==
  [e \in {"funds", "persons", "organisations", "projects"} |->
     CASE e = "funds" ->
            <<"end", "id", "start", "category", "rel", "amount",
              "currencyCode", "project_id">>
       [] e = "persons" ->
            <<"id", "firstName", "surname", "rel", "project_id", "otherNames">>
       [] e = "organisations" -> <<"id", "name", "addresses">>
       [] e = "projects" -> <<"id", "name", "addresses">>]

\* ------------------------------------------------------------ environment
\* Endpoint names the modelled ENDPOINTS list is drawn from: one with a
\* declared header list, one without.
EndpointNames == {"organisations", "outcomes"}

EndpointLists ==
  UNION {[1..n -> EndpointNames] : n \in 0..MaxEndpoints}

\* Records the modelled API returns.  recA carries an undeclared field,
\* recB lacks the declared field "addresses".
recA == [id |-> "1", name |-> "a", addresses |-> "x", href |-> "h"]
recB == [id |-> "2", name |-> "b"]

\* A response body: text that is not JSON, a JSON object (set of
\* <<key, value>> pairs) or a JSON array of records.
InvalidBody == [kind |-> "invalid", object |-> {}, array |-> <<>>]
ObjectBody(o) == [kind |-> "object", object |-> o, array |-> <<>>]
ArrayBody(a) == [kind |-> "array", object |-> {}, array |-> a]

\* The answer to a request without p parameter when there are n pages: the
\* page count and, when there is a page, records of the first page.
DiscoveryBody(n) ==
  IF n = 0
    THEN ObjectBody({<<"totalPages", 0>>})
    ELSE ObjectBody({<<"totalPages", n>>, <<"organisation", <<recB>>>>})

\* 2xx bodies of a discovery request (no p parameter).
DiscoveryBodies ==
  {InvalidBody, ObjectBody({})} \cup {DiscoveryBody(n) : n \in 0..MaxPages}

\* 2xx bodies of a page request.
PageBodies ==
  {InvalidBody, ArrayBody(<<>>), ArrayBody(<<recA>>), ArrayBody(<<recB, recA>>)}

\* HTTP statuses the modelled server answers with.
Statuses == {200, 400, 404, 500, 503}

\* requests' Response.ok: raise_for_status() does not raise.
response_ok(status) == ~(400 <= status /\ status < 600)

\* What one GET on the wire can come back with: a network-level failure
\* (err), an error status, or a 2xx with a body fitting the request.
WireResponses(s) ==
  {[err |-> TRUE, status |-> 0, body |-> InvalidBody]}
    \cup {[err |-> FALSE, status |-> st, body |-> InvalidBody] :
            st \in {x \in Statuses : ~response_ok(x)}}
    \cup {[err |-> FALSE, status |-> st, body |-> b] :
            st \in {x \in Statuses : response_ok(x)},
            b \in IF s = "discovery" THEN DiscoveryBodies ELSE PageBodies}

VARIABLES
  ENDPOINTS,        \* the list local_wrapper iterates
  now,              \* datetime.datetime.now() at import
  pc,               \* position of the thread of control
  site,             \* call site of the main_request in progress
  idx,              \* 1-based position of local_wrapper's loop
  endpoint,         \* argument of the running gtr_to_s3
  max_retries,      \* argument of the running main_request
  attempt,          \* loop variable of main_request
  retry_total,      \* Retry.total left inside the running session.get
  r,                \* value main_request returned: None or <<response>>
  total_pages,
  s3_key,
  page_no,
  prev_percentage,
  all_data,
  headers,          \* [bound, names]: the local may be unbound
  S3,               \* object store: key -> <<>> or <<body>>
  exc,              \* exception that ended the job ("" when none)
  \* history variables
  hardSeen,         \* the current main_request call received an error
                    \* status outside status_forcelist
  sentAfterHard,    \* ... and sent a GET after receiving it
  wireGets,         \* GETs sent on the wire by the current main_request call,
                    \* counted as long as hardSeen is false (0 afterwards)
  all503,           \* every response of the call so far that was not a
                    \* 2xx was a 503
  okSeen,           \* None or <<the 2xx response the server sent>>
  discovery,        \* None or <<body the current run read its page count from>>
  keyBefore,        \* what the run's destination key held when the run started
  fetched,          \* page bodies appended by the current run, in order
  reqPages,         \* page numbers requested on the wire by the current run
  writes,           \* put_objects performed by the current run: [run, key, body]
  RunResult,        \* per list position: "NotRun", "Running", "Success", "Failure"
  emitted,          \* percentages logged by the current run
  reqLog,           \* per main_request call of the current run that sent a
                    \* GET: the page it asked for (0: no p parameter)
  putCalls,         \* put_object calls of the current run, failed ones included
  prevRun           \* None or <<[start, key, stored]>>: the process that ran
                    \* before this one, its key and what it left there

\* the state of a main_request call
callVars ==
  <<site, max_retries, attempt, retry_total, r, hardSeen, sentAfterHard,
    wireGets, all503, okSeen>>

\* the locals of gtr_to_s3
runLocals ==
  <<total_pages, s3_key, page_no, prev_percentage, all_data, headers>>

\* the history of the current run
runHistory ==
  <<discovery, keyBefore, fetched, reqPages, writes, emitted, reqLog, putCalls>>

vars ==
  <<ENDPOINTS, now, pc, idx, endpoint, S3, exc, RunResult, callVars, runLocals,
    runHistory, prevRun>>

\* ------------------------------------------------------------- pure parts
\* mutant of strftime: a format without directives, the same text every day
strftime_literal(t) == "20240101"

\* TIMESTAMP = now.strftime("%Y%m%d"): the day only.
strftime(t) == t.day

TIMESTAMP == strftime(now)

get_s3_key(name, destination_path, timestamp) ==
  <<destination_path, "GtR_", timestamp, "/gtr_", name, ".json">>

\* getters/gtr_to_s3.py: now.strftime("%Y%m%d_%H%M%S")
getters_strftime(t) == <<t.day, "_", t.sec>>

\* getters/gtr_to_s3.py: get_s3_key(name, destination_path), which reads the
\* clock itself (t) and names the object .csv
getters_get_s3_key(name, destination_path, t) ==
  <<destination_path, "GtR_">> \o getters_strftime(t) \o <<"/gtr_", name, ".csv">>

\* mutant of get_total_pages: a missing field defaults to one page
get_total_pages_default_one(body) ==
  IF \E p \in body.object : p[1] = "totalPages"
    THEN (CHOOSE p \in body.object : p[1] = "totalPages")[2]
    ELSE 1

\* json_response.get("totalPages", 0)
get_total_pages(body) ==
  IF \E p \in body.object : p[1] = "totalPages"
    THEN (CHOOSE p \in body.object : p[1] = "totalPages")[2]
    ELSE 0

\* mutant of extract_item: a header the record lacks gets no key
extract_item_omit(item, names) ==
  [h \in {names[i] : i \in 1..Len(names)} \cap DOMAIN item |-> item[h]]

\* extracted_item[header] = item.get(header), for header in headers
extract_item(item, names) ==
  [h \in {names[i] : i \in 1..Len(names)} |->
     IF h \in DOMAIN item THEN item[h] ELSE NoneValue]

\* the loop over response_data building extracted_data
extract_data(response_data, names) ==
  [i \in 1..Len(response_data) |-> extract_item(response_data[i], names)]

\* mutant of extend: the page's records go in front of the earlier ones
extend_prepend(data, extracted_data) == extracted_data \o data

\* all_data.extend(extracted_data)
extend(data, extracted_data) == data \o extracted_data

RECURSIVE pow2(_)
\* 2^n
pow2(n) == IF n = 0 THEN 1 ELSE 2 * pow2(n - 1)

RECURSIVE pow2mod(_, _)
\* 2^n modulo m
pow2mod(n, m) == IF n = 0 THEN 1 % m ELSE (2 * pow2mod(n - 1, m)) % m

RECURSIVE ilog2(_)
\* the binary exponent of the integer k >= 1: 2^ilog2(k) <= k < 2^(ilog2(k)+1)
ilog2(k) == IF k < 2 THEN 0 ELSE 1 + ilog2(k \div 2)

RECURSIVE binade(_, _)
\* the s >= 0 with 2^(-s) <= p/total < 2^(1-s), for 1 <= p <= total
binade(p, total) == IF p >= total THEN 0 ELSE 1 + binade(2 * p, total)

\* mutant of rounded_percentage: the pages are counted from 0
rounded_percentage_from_zero(p, total) == ((p - 1) * 100) \div total

\* math.floor((page_no / total_pages) * 100) in IEEE-754 double arithmetic
\* (53-bit significands, round to nearest), for 1 <= p <= total.
\* When 100*p/total is not an integer it is at least 1/total away from one,
\* far more than the rounding errors: the floor is the exact one.  When it
\* is the integer k: the quotient p/total is stored as m * 2^(-52-s), m the
\* integer nearest to p * 2^(52+s) / total; the stored quotient is too small
\* exactly when the remainder rho of that division is below total/2 and not
\* 0 (it cannot be total/2: p * 2^(52+s) has more factors 2 than total).  The
\* product with 100 is then k - 100*rho*2^(-52-s)/total, and it is rounded
\* to a double below k, whose floor is k - 1, exactly when that deficit
\* exceeds half the spacing 2^(Ep-52) of the doubles just below k:
\* 200 * rho > total * 2^(Ep+s).
rounded_percentage(p, total) ==
  LET exact == (p * 100) \div total
      s == binade(p, total)
      rho == (p * pow2mod(52 + s, total)) % total
      Ep == IF pow2(ilog2(exact)) = exact THEN ilog2(exact) - 1 ELSE ilog2(exact)
  IN IF (p * 100) % total # 0 THEN exact
     ELSE IF /\ 2 * rho < total
             /\ 200 * rho > total * pow2(Ep + s)
       THEN exact - 1
     ELSE exact

\* the value log_percentage_complete returns
log_percentage_complete(p, total, prev) == rounded_percentage(p, total)

\* the events log_percentage_complete emits
log_percentage_events(p, total, prev, log) ==
  IF rounded_percentage(p, total) # prev
    THEN Append(log, rounded_percentage(p, total))
    ELSE log

\* s3_client.put_object(Body=..., Key=s3_key): one whole-object write.
put_object(store, key, body) == [store EXCEPT ![key] = <<body>>]

\* The adapter re-sends inside session.get on a network failure or a status
\* of status_forcelist while Retry.total is not used up.
adapter_retries(resp, total) ==
  /\ resp.err \/ resp.status \in status_forcelist
  /\ total > 0

\* except requests.RequestException: retry unless this is the last attempt.
handler_retries(att, maxr) == att < maxr

\* mutant of main_request_step: the successful response is not returned,
\* the loop goes on
main_request_step_no_return(resp, att, total, maxr) ==
  IF ~resp.err /\ response_ok(resp.status)
    THEN IF handler_retries(att, maxr) THEN "retry" ELSE "none"
  ELSE IF adapter_retries(resp, total) THEN "resend"
  ELSE IF handler_retries(att, maxr) THEN "retry"
  ELSE "none"

\* mutant of main_request_step: the last attempt's exception is re-raised
main_request_step_reraise(resp, att, total, maxr) ==
  IF ~resp.err /\ response_ok(resp.status) THEN "return"
  ELSE IF adapter_retries(resp, total) THEN "resend"
  ELSE IF handler_retries(att, maxr) THEN "retry"
  ELSE "raise"

\* mutant of main_request_step: a response with an error status the adapter
\* does not re-send is returned as it is
main_request_step_return_error(resp, att, total, maxr) ==
  IF ~resp.err /\ response_ok(resp.status) THEN "return"
  ELSE IF adapter_retries(resp, total) THEN "resend"
  ELSE IF ~resp.err THEN "return"
  ELSE IF handler_retries(att, maxr) THEN "retry"
  ELSE "none"

\* One GET of main_request's loop and what follows it:
\* "return" the response, "resend" inside session.get, "retry" the loop,
\* "none" (return None) or "raise" (an exception leaves main_request).
main_request_step(resp, att, total, maxr) ==
  IF ~resp.err /\ response_ok(resp.status) THEN "return"
  ELSE IF adapter_retries(resp, total) THEN "resend"
  ELSE IF handler_retries(att, maxr) THEN "retry"
  ELSE "none"

\* mutant of json_loads: a failed request reads as an empty document
json_loads_tolerant(resp) ==
  IF resp = None THEN [exc |-> "", body |-> ObjectBody({})]
  ELSE IF resp[1].body.kind = "invalid"
    THEN [exc |-> "JSONDecodeError", body |-> InvalidBody]
  ELSE [exc |-> "", body |-> resp[1].body]

\* mutant of json_loads: text that is not JSON reads as an empty array
json_loads_lenient(resp) ==
  IF resp = None THEN [exc |-> "AttributeError", body |-> InvalidBody]
  ELSE IF resp[1].body.kind = "invalid"
    THEN [exc |-> "", body |-> ArrayBody(<<>>)]
  ELSE [exc |-> "", body |-> resp[1].body]

\* r.content / r.text of the value main_request returned, parsed by
\* json.loads: the attribute access fails on None, the parse on non-JSON.
json_loads(resp) ==
  IF resp = None THEN [exc |-> "AttributeError", body |-> InvalidBody]
  ELSE IF resp[1].body.kind = "invalid"
    THEN [exc |-> "JSONDecodeError", body |-> InvalidBody]
  ELSE [exc |-> "", body |-> resp[1].body]

\* ------------------------------------------------------------------ state
\* The instants a process of the model can start at, in order: two on one
\* day, one on the next.
Timeline ==
  << [day |-> "20240101", sec |-> "000000"],
     [day |-> "20240101", sec |-> "000001"],
     [day |-> "20240102", sec |-> "000000"] >>

\* The instant the first process starts at.
Clock == {Timeline[1]}

\* getters/gtr_to_s3.py: the head of its ENDPOINTS list.
getters_ENDPOINTS == <<"funds", "organisations", "outcomes">>

\* The keys of the object store the model's processes can write.
Keys ==
  {get_s3_key(e, DESTINATION_S3_PATH, strftime(Timeline[i])) :
     e \in EndpointNames, i \in 1..Len(Timeline)}
  \cup
  {getters_get_s3_key(getters_ENDPOINTS[1], DESTINATION_S3_PATH, Timeline[i]) :
     i \in 1..Len(Timeline)}

InitCommon ==
  /\ now \in Clock
  /\ idx = 1
  /\ endpoint = ""
  /\ attempt = 0
  /\ r = None
  /\ total_pages = 0
  /\ s3_key = <<>>
  /\ page_no = 0
  /\ prev_percentage = NoPercentage
  /\ all_data = <<>>
  /\ headers = [bound |-> FALSE, names |-> <<>>]
  /\ S3 = [k \in Keys |-> <<>>]
  /\ exc = ""
  /\ wireGets = 0
  /\ hardSeen = FALSE
  /\ sentAfterHard = FALSE
  /\ all503 = TRUE
  /\ okSeen = None
  /\ discovery = None
  /\ keyBefore = <<>>
  /\ fetched = <<>>
  /\ reqPages = {}
  /\ writes = <<>>
  /\ emitted = <<>>
  /\ reqLog = <<>>
  /\ putCalls = 0
  /\ prevRun = None

\* The job as run locally: local_wrapper over ENDPOINTS.
Init ==
  /\ InitCommon
  /\ ENDPOINTS \in EndpointLists
  /\ RunResult = [i \in 1..Len(ENDPOINTS) |-> "NotRun"]
  /\ pc = "wrapper"
  /\ site = "none"
  /\ max_retries = DefaultMaxRetries
  /\ retry_total = 0

\* main_request called on its own (unused_gtr_code.py), with any max_retries.
InitRequest ==
  /\ InitCommon
  /\ ENDPOINTS = <<"organisations">>
  /\ RunResult = [i \in 1..1 |-> "Running"]
  /\ pc = "request"
  /\ site = "direct"
  /\ max_retries \in 0..MaxRetriesArg
  /\ retry_total = max_retries

\* The page loop of one run followed for its progress log alone: any page
\* count up to MaxProgressPages, every page fetched.
InitProgress ==
  /\ now \in Clock
  /\ ENDPOINTS = <<"organisations">>
  /\ RunResult = [i \in 1..1 |-> "Running"]
  /\ pc = "progress"
  /\ idx = 1
  /\ endpoint = "organisations"
  /\ site = "page"
  /\ max_retries = DefaultMaxRetries
  /\ attempt = 0
  /\ retry_total = 0
  /\ r = None
  /\ total_pages \in 1..MaxProgressPages
  /\ s3_key = get_s3_key("organisations", DESTINATION_S3_PATH, TIMESTAMP)
  /\ page_no = 1
  /\ prev_percentage = NoPercentage
  /\ all_data = <<>>
  /\ headers = [bound |-> TRUE, names |-> ENDPOINT_HEADERS["organisations"]]
  /\ S3 = [k \in Keys |-> <<>>]
  /\ exc = ""
  /\ wireGets = 0
  /\ hardSeen = FALSE
  /\ sentAfterHard = FALSE
  /\ all503 = TRUE
  /\ okSeen = None
  /\ discovery = <<DiscoveryBody(total_pages)>>
  /\ keyBefore = <<>>
  /\ fetched = <<>>
  /\ reqPages = {}
  /\ writes = <<>>
  /\ emitted = <<>>
  /\ reqLog = <<>>
  /\ putCalls = 0
  /\ prevRun = None

\* getters/gtr_to_s3.py run as a script: gtr_to_s3(ENDPOINTS[0]).
InitGetters ==
  /\ InitCommon
  /\ ENDPOINTS = getters_ENDPOINTS
  /\ RunResult = [i \in 1..Len(getters_ENDPOINTS) |->
                    IF i = 1 THEN "Running" ELSE "NotRun"]
  /\ pc = "g_discover"
  /\ site = "none"
  /\ max_retries = 0
  /\ retry_total = 0

\* ---------------------------------------------------------------- actions
\* Entry of main_request: the session with its Retry(total=max_retries)
\* adapter, and the attempt loop at its first iteration.
BeginRequest(s, maxr) ==
  /\ pc' = "request"
  /\ site' = s
  /\ max_retries' = maxr
  /\ attempt' = 0
  /\ retry_total' = maxr
  /\ r' = None
  /\ wireGets' = 0
  /\ hardSeen' = FALSE
  /\ sentAfterHard' = FALSE
  /\ all503' = TRUE
  /\ okSeen' = None

\* An uncaught exception: it leaves gtr_to_s3 and, nothing catching it in
\* local_wrapper, ends the job.
Raise(kind) ==
  /\ pc' = "crashed"
  /\ exc' = kind
  /\ RunResult' = [RunResult EXCEPT ![idx] = "Failure"]

\* One GET on the wire inside main_request and the handling of its outcome.
WireGet ==
  /\ pc = "request"
  /\ \E resp \in WireResponses(site) :
       LET step == main_request_step(resp, attempt, retry_total, max_retries)
           isOk == ~resp.err /\ response_ok(resp.status)
       IN
       /\ hardSeen' =
            (hardSeen \/ (~resp.err /\ ~isOk /\ resp.status \notin status_forcelist))
       /\ sentAfterHard' = (sentAfterHard \/ hardSeen)
       /\ wireGets' = IF hardSeen' THEN 0 ELSE wireGets + 1
       /\ all503' = (all503 /\ (isOk \/ (~resp.err /\ resp.status = 503)))
       /\ okSeen' = IF isOk THEN <<resp>> ELSE okSeen
       /\ reqPages' = IF site = "page" THEN reqPages \cup {page_no} ELSE reqPages
       /\ reqLog' = IF wireGets = 0 /\ ~hardSeen
                      THEN Append(reqLog, IF site = "page" THEN page_no ELSE 0)
                      ELSE reqLog
       /\ CASE step = "return" ->
                 /\ r' = <<resp>>
                 /\ pc' = "returned"
                 /\ UNCHANGED <<attempt, retry_total, exc, RunResult>>
            [] step = "resend" ->
                 /\ retry_total' = retry_total - 1
                 /\ UNCHANGED <<attempt, r, pc, exc, RunResult>>
            [] step = "retry" ->
                 /\ attempt' = attempt + 1
                 /\ retry_total' = max_retries
                 /\ UNCHANGED <<r, pc, exc, RunResult>>
            [] step = "none" ->
                 /\ r' = None
                 /\ pc' = "returned"
                 /\ UNCHANGED <<attempt, retry_total, exc, RunResult>>
            [] OTHER ->
                 /\ Raise("RequestException")
                 /\ UNCHANGED <<attempt, retry_total, r>>
  /\ UNCHANGED <<ENDPOINTS, now, prevRun, site, idx, endpoint, max_retries, runLocals,
                 S3, discovery, keyBefore, fetched, writes, emitted, putCalls>>

\* local_wrapper: the next endpoint of the list starts its gtr_to_s3, up to
\* the discovery call; with the list used up (or empty) the job ends.
Wrapper ==
  /\ pc = "wrapper"
  /\ IF idx <= Len(ENDPOINTS)
       THEN /\ endpoint' = ENDPOINTS[idx]
            /\ RunResult' = [RunResult EXCEPT ![idx] = "Running"]
            /\ BeginRequest("discovery", DefaultMaxRetries)
            /\ total_pages' = 0
            /\ s3_key' = <<>>
            /\ page_no' = 0
            /\ prev_percentage' = NoPercentage
            /\ all_data' = <<>>
            /\ headers' = [bound |-> FALSE, names |-> <<>>]
            /\ discovery' = None
            /\ keyBefore' =
                 S3[get_s3_key(ENDPOINTS[idx], DESTINATION_S3_PATH, TIMESTAMP)]
            /\ fetched' = <<>>
            /\ reqPages' = {}
            /\ emitted' = <<>>
            /\ writes' = <<>>
            /\ reqLog' = <<>>
            /\ putCalls' = 0
            /\ UNCHANGED <<ENDPOINTS, now, prevRun, idx, S3, exc>>
       ELSE /\ pc' = "done"
            /\ UNCHANGED <<ENDPOINTS, now, prevRun, idx, endpoint, S3, exc, RunResult,
                           callVars, runLocals, runHistory>>

\* mutant of Discover: the page loop starts at the last page
Discover_last_page_first ==
  /\ pc = "returned"
  /\ site = "discovery"
  /\ LET parsed == json_loads(r) IN
     IF parsed.exc # ""
       THEN /\ Raise(parsed.exc)
            /\ UNCHANGED <<callVars, runLocals, discovery>>
       ELSE /\ total_pages' = get_total_pages(parsed.body)
            /\ discovery' = <<parsed.body>>
            /\ s3_key' = get_s3_key(endpoint, DESTINATION_S3_PATH, TIMESTAMP)
            /\ prev_percentage' = NoPercentage
            /\ all_data' = <<>>
            /\ headers' = IF endpoint \in DOMAIN ENDPOINT_HEADERS
                            THEN [bound |-> TRUE, names |-> ENDPOINT_HEADERS[endpoint]]
                            ELSE [bound |-> FALSE, names |-> <<>>]
            /\ IF 1 <= total_pages'
                 THEN /\ page_no' = total_pages'
                      /\ BeginRequest("page", DefaultMaxRetries)
                 ELSE /\ pc' = "upload"
                      /\ UNCHANGED <<page_no, callVars>>
            /\ UNCHANGED <<exc, RunResult>>
  /\ UNCHANGED <<ENDPOINTS, now, prevRun, idx, endpoint, S3, keyBefore, fetched,
                 reqPages, writes, emitted, reqLog, putCalls>>

\* gtr_to_s3 from the return of the discovery call to the first page
\* request (or to the upload when there is no page).
Discover ==
  /\ pc = "returned"
  /\ site = "discovery"
  /\ LET parsed == json_loads(r) IN
     IF parsed.exc # ""
       THEN /\ Raise(parsed.exc)
            /\ UNCHANGED <<callVars, runLocals, discovery>>
       ELSE /\ total_pages' = get_total_pages(parsed.body)
            /\ discovery' = <<parsed.body>>
            /\ s3_key' = get_s3_key(endpoint, DESTINATION_S3_PATH, TIMESTAMP)
            /\ prev_percentage' = NoPercentage
            /\ all_data' = <<>>
            /\ headers' = IF endpoint \in DOMAIN ENDPOINT_HEADERS
                            THEN [bound |-> TRUE, names |-> ENDPOINT_HEADERS[endpoint]]
                            ELSE [bound |-> FALSE, names |-> <<>>]
            /\ IF 1 <= total_pages'
                 THEN /\ page_no' = 1
                      /\ BeginRequest("page", DefaultMaxRetries)
                 ELSE /\ pc' = "upload"
                      /\ UNCHANGED <<page_no, callVars>>
            /\ UNCHANGED <<exc, RunResult>>
  /\ UNCHANGED <<ENDPOINTS, now, prevRun, idx, endpoint, S3, keyBefore, fetched,
                 reqPages, writes, emitted, reqLog, putCalls>>

\* mutant of AppendPage: a page without records is taken as the last one
AppendPage_recount ==
  /\ pc = "returned"
  /\ site = "page"
  /\ LET parsed == json_loads(r) IN
     IF parsed.exc # ""
       THEN /\ Raise(parsed.exc)
            /\ UNCHANGED <<callVars, runLocals, fetched, emitted>>
     ELSE IF parsed.body.array # <<>> /\ ~headers.bound
       THEN /\ Raise("UnboundLocalError")
            /\ UNCHANGED <<callVars, runLocals, fetched, emitted>>
     ELSE /\ all_data' =
               extend(all_data, extract_data(parsed.body.array, headers.names))
          /\ fetched' = Append(fetched, parsed.body.array)
          /\ prev_percentage' =
               log_percentage_complete(page_no, total_pages, prev_percentage)
          /\ emitted' =
               log_percentage_events(page_no, total_pages, prev_percentage, emitted)
          /\ total_pages' =
               IF parsed.body.array = <<>> THEN page_no ELSE total_pages
          /\ IF page_no < total_pages'
               THEN /\ page_no' = page_no + 1
                    /\ BeginRequest("page", DefaultMaxRetries)
               ELSE /\ pc' = "upload"
                    /\ UNCHANGED <<page_no, callVars>>
          /\ UNCHANGED <<s3_key, headers, exc, RunResult>>
  /\ UNCHANGED <<ENDPOINTS, now, prevRun, idx, endpoint, S3, discovery, keyBefore,
                 reqPages, writes, reqLog, putCalls>>

\* mutant of AppendPage: the data gathered so far is put to the destination
\* key after every page
AppendPage_put_each_page ==
  /\ pc = "returned"
  /\ site = "page"
  /\ LET parsed == json_loads(r) IN
     IF parsed.exc # ""
       THEN /\ Raise(parsed.exc)
            /\ UNCHANGED <<callVars, runLocals, fetched, emitted, S3>>
     ELSE IF parsed.body.array # <<>> /\ ~headers.bound
       THEN /\ Raise("UnboundLocalError")
            /\ UNCHANGED <<callVars, runLocals, fetched, emitted, S3>>
     ELSE /\ all_data' =
               extend(all_data, extract_data(parsed.body.array, headers.names))
          /\ S3' = put_object(S3, s3_key, all_data')
          /\ fetched' = Append(fetched, parsed.body.array)
          /\ prev_percentage' =
               log_percentage_complete(page_no, total_pages, prev_percentage)
          /\ emitted' =
               log_percentage_events(page_no, total_pages, prev_percentage, emitted)
          /\ IF page_no < total_pages
               THEN /\ page_no' = page_no + 1
                    /\ BeginRequest("page", DefaultMaxRetries)
               ELSE /\ pc' = "upload"
                    /\ UNCHANGED <<page_no, callVars>>
          /\ UNCHANGED <<total_pages, s3_key, headers, exc, RunResult>>
  /\ UNCHANGED <<ENDPOINTS, now, prevRun, idx, endpoint, discovery, keyBefore,
                 reqPages, writes, reqLog, putCalls>>

\* One pass of the page loop from the return of the page's main_request:
\* parse, extract, extend, log, then the next page's request or the upload.
AppendPage ==
  /\ pc = "returned"
  /\ site = "page"
  /\ LET parsed == json_loads(r) IN
     IF parsed.exc # ""
       THEN /\ Raise(parsed.exc)
            /\ UNCHANGED <<callVars, runLocals, fetched, emitted>>
     ELSE IF parsed.body.array # <<>> /\ ~headers.bound
       THEN /\ Raise("UnboundLocalError")
            /\ UNCHANGED <<callVars, runLocals, fetched, emitted>>
     ELSE /\ all_data' =
               extend(all_data, extract_data(parsed.body.array, headers.names))
          /\ fetched' = Append(fetched, parsed.body.array)
          /\ prev_percentage' =
               log_percentage_complete(page_no, total_pages, prev_percentage)
          /\ emitted' =
               log_percentage_events(page_no, total_pages, prev_percentage, emitted)
          /\ IF page_no < total_pages
               THEN /\ page_no' = page_no + 1
                    /\ BeginRequest("page", DefaultMaxRetries)
               ELSE /\ pc' = "upload"
                    /\ UNCHANGED <<page_no, callVars>>
          /\ UNCHANGED <<total_pages, s3_key, headers, exc, RunResult>>
  /\ UNCHANGED <<ENDPOINTS, now, prevRun, idx, endpoint, S3, discovery, keyBefore,
                 reqPages, writes, reqLog, putCalls>>

\* mutant of Upload: a put_object that raised is called a second time
Upload_retry ==
  /\ pc = "upload"
  /\ \E stored \in BOOLEAN, storedAgain \in BOOLEAN :
       /\ putCalls' = IF stored THEN putCalls + 1 ELSE putCalls + 2
       /\ IF stored \/ storedAgain
            THEN /\ S3' = put_object(S3, s3_key, all_data)
                 /\ writes' = Append(writes, [run |-> idx, key |-> s3_key,
                                               body |-> all_data])
                 /\ RunResult' = [RunResult EXCEPT ![idx] = "Success"]
                 /\ idx' = idx + 1
                 /\ pc' = "wrapper"
                 /\ UNCHANGED exc
            ELSE /\ Raise("ClientError")
                 /\ UNCHANGED <<S3, writes, idx>>
  /\ UNCHANGED <<ENDPOINTS, now, prevRun, endpoint, callVars, runLocals, discovery,
                 keyBefore, fetched, reqPages, emitted, reqLog>>

\* upload_data_to_s3(all_data, S3, MY_BUCKET_NAME, s3_key): the put_object
\* either stores the whole body or raises; on success gtr_to_s3 returns.
Upload ==
  /\ pc = "upload"
  /\ putCalls' = putCalls + 1
  /\ \E stored \in BOOLEAN :
       IF stored
         THEN /\ S3' = put_object(S3, s3_key, all_data)
              /\ writes' = Append(writes, [run |-> idx, key |-> s3_key,
                                            body |-> all_data])
              /\ RunResult' = [RunResult EXCEPT ![idx] = "Success"]
              /\ idx' = idx + 1
              /\ pc' = "wrapper"
              /\ UNCHANGED exc
         ELSE /\ Raise("ClientError")
              /\ UNCHANGED <<S3, writes, idx>>
  /\ UNCHANGED <<ENDPOINTS, now, prevRun, endpoint, callVars, runLocals, discovery,
                 keyBefore, fetched, reqPages, emitted, reqLog>>

\* unused_gtr_code.py: r = main_request(...); print(r.content)
PrintContent ==
  /\ pc = "returned"
  /\ site = "direct"
  /\ IF r = None
       THEN Raise("AttributeError")
       ELSE /\ pc' = "done"
            /\ RunResult' = [RunResult EXCEPT ![idx] = "Success"]
            /\ UNCHANGED exc
  /\ UNCHANGED <<ENDPOINTS, now, prevRun, idx, endpoint, S3, callVars, runLocals,
                 runHistory>>

\* A later start of the script, the earlier process having ended: the
\* module is imported anew (now, TIMESTAMP), the object store is as it was
\* left.
Restart ==
  /\ pc \in {"done", "crashed"}
  /\ prevRun = None
  /\ ENDPOINTS # <<>>
  /\ \E i, j \in 1..Len(Timeline) :
       /\ now = Timeline[i]
       /\ i < j
       /\ now' = Timeline[j]
  /\ prevRun' =
       <<[start |-> now,
          key |-> get_s3_key(ENDPOINTS[1], DESTINATION_S3_PATH, TIMESTAMP),
          stored |-> S3[get_s3_key(ENDPOINTS[1], DESTINATION_S3_PATH, TIMESTAMP)]]>>
  /\ pc' = "wrapper"
  /\ idx' = 1
  /\ endpoint' = ""
  /\ exc' = ""
  /\ RunResult' = [i \in 1..Len(ENDPOINTS) |-> "NotRun"]
  /\ site' = "none"
  /\ max_retries' = DefaultMaxRetries
  /\ attempt' = 0
  /\ retry_total' = 0
  /\ r' = None
  /\ hardSeen' = FALSE
  /\ sentAfterHard' = FALSE
  /\ wireGets' = 0
  /\ all503' = TRUE
  /\ okSeen' = None
  /\ total_pages' = 0
  /\ s3_key' = <<>>
  /\ page_no' = 0
  /\ prev_percentage' = NoPercentage
  /\ all_data' = <<>>
  /\ headers' = [bound |-> FALSE, names |-> <<>>]
  /\ discovery' = None
  /\ keyBefore' = <<>>
  /\ fetched' = <<>>
  /\ reqPages' = {}
  /\ writes' = <<>>
  /\ emitted' = <<>>
  /\ reqLog' = <<>>
  /\ putCalls' = 0
  /\ UNCHANGED <<ENDPOINTS, S3>>

\* getters/gtr_to_s3.py, gtr_to_s3 up to the loop: one requests.get (no
\* retry, no status check), the page count, the key stamped with the time of
\* the get_s3_key call.
GettersDiscover ==
  /\ pc = "g_discover"
  /\ endpoint' = ENDPOINTS[1]
  /\ reqLog' = Append(reqLog, 0)
  /\ \E resp \in WireResponses("discovery") :
       IF resp.err
         THEN /\ Raise("ConnectionError")
              /\ UNCHANGED <<r, now, total_pages, discovery, s3_key, page_no>>
       ELSE IF json_loads(<<resp>>).exc # ""
         THEN /\ Raise(json_loads(<<resp>>).exc)
              /\ r' = <<resp>>
              /\ UNCHANGED <<now, total_pages, discovery, s3_key, page_no>>
       ELSE /\ r' = <<resp>>
            /\ total_pages' = get_total_pages(resp.body)
            /\ discovery' = <<resp.body>>
            /\ \E i, j \in 1..Len(Timeline) :
                 /\ now = Timeline[i]
                 /\ i <= j
                 /\ now' = Timeline[j]
            /\ s3_key' = getters_get_s3_key(endpoint', DESTINATION_S3_PATH, now')
            /\ page_no' = IF 1 <= total_pages' THEN 1 ELSE 0
            /\ pc' = IF 1 <= total_pages' THEN "g_page" ELSE "g_upload"
            /\ UNCHANGED <<exc, RunResult>>
  /\ UNCHANGED <<ENDPOINTS, prevRun, idx, S3, site, max_retries, attempt,
                 retry_total, hardSeen, sentAfterHard, wireGets, all503, okSeen,
                 prev_percentage, all_data, headers, keyBefore, fetched,
                 reqPages, writes, emitted, putCalls>>

\* getters/gtr_to_s3.py, one iteration of the page loop: the page is
\* fetched, all_data.extend(r.json()), and the percentage is logged when
\* (page_no / total_pages) * 100 is a whole number.
GettersPage ==
  /\ pc = "g_page"
  /\ reqLog' = Append(reqLog, page_no)
  /\ reqPages' = reqPages \cup {page_no}
  /\ \E resp \in WireResponses("page") :
       IF resp.err
         THEN /\ Raise("ConnectionError")
              /\ UNCHANGED <<r, all_data, fetched, emitted, page_no>>
       ELSE IF json_loads(<<resp>>).exc # ""
         THEN /\ Raise(json_loads(<<resp>>).exc)
              /\ r' = <<resp>>
              /\ UNCHANGED <<all_data, fetched, emitted, page_no>>
       ELSE /\ r' = <<resp>>
            /\ all_data' = extend(all_data, resp.body.array)
            /\ fetched' = Append(fetched, resp.body.array)
            /\ emitted' = IF (page_no * 100) % total_pages = 0
                             THEN Append(emitted, (page_no * 100) \div total_pages)
                             ELSE emitted
            /\ IF page_no < total_pages
                 THEN /\ page_no' = page_no + 1
                      /\ pc' = "g_page"
                 ELSE /\ pc' = "g_upload"
                      /\ UNCHANGED page_no
            /\ UNCHANGED <<exc, RunResult>>
  /\ UNCHANGED <<ENDPOINTS, now, prevRun, idx, endpoint, S3, site, max_retries,
                 attempt, retry_total, hardSeen, sentAfterHard, wireGets, all503,
                 okSeen, total_pages, s3_key, prev_percentage, headers,
                 discovery, keyBefore, writes, putCalls>>

\* getters/gtr_to_s3.py, upload_data_to_s3 after the loop, then the script
\* ends.
GettersUpload ==
  /\ pc = "g_upload"
  /\ putCalls' = putCalls + 1
  /\ \E stored \in BOOLEAN :
       IF stored
         THEN /\ S3' = put_object(S3, s3_key, all_data)
              /\ writes' = Append(writes, [run |-> idx, key |-> s3_key,
                                            body |-> all_data])
              /\ RunResult' = [RunResult EXCEPT ![idx] = "Success"]
              /\ pc' = "done"
              /\ UNCHANGED exc
         ELSE /\ Raise("ClientError")
              /\ UNCHANGED <<S3, writes>>
  /\ UNCHANGED <<ENDPOINTS, now, prevRun, idx, endpoint, callVars, runLocals,
                 discovery, keyBefore, fetched, reqPages, emitted, reqLog>>

\* The end of one iteration of the page loop, the page's records left
\* aside: prev_percentage = log_percentage_complete(page_no, total_pages,
\* prev_percentage, endpoint), then the next page_no of the range.
LogProgress ==
  /\ pc = "progress"
  /\ page_no <= total_pages
  /\ prev_percentage' =
       log_percentage_complete(page_no, total_pages, prev_percentage)
  /\ emitted' =
       log_percentage_events(page_no, total_pages, prev_percentage, emitted)
  /\ page_no' = page_no + 1
  /\ UNCHANGED <<ENDPOINTS, now, prevRun, pc, idx, endpoint, S3, exc, RunResult,
                 callVars, total_pages, s3_key, all_data, headers, discovery,
                 keyBefore, fetched, reqPages, writes, reqLog, putCalls>>

Next == Wrapper \/ WireGet \/ Discover \/ AppendPage \/ Upload

Spec == Init /\ [][Next]_vars

\* The script started with one endpoint (as each GitHub Actions instance
\* does), and started once more later.
InitRerun ==
  /\ Init
  /\ Len(ENDPOINTS) = 1

NextRerun == Next \/ Restart

SpecRerun == InitRerun /\ [][NextRerun]_vars

NextGetters == GettersDiscover \/ GettersPage \/ GettersUpload

SpecGetters == InitGetters /\ [][NextGetters]_vars

NextProgress == LogProgress

SpecProgress == InitProgress /\ [][NextProgress]_vars

NextRequest == WireGet \/ PrintContent

\* The call of main_request with every GET it sends answered or failed in
\* the end (the timeouts of the network stack).
FairSpecRequest == InitRequest /\ [][NextRequest]_vars /\ WF_vars(WireGet)

SpecRequest == InitRequest /\ [][NextRequest]_vars

\* ----------------------------------------------------------------- claims
RECURSIVE Flatten(_)
\* the records of a sequence of pages, page by page, each in its own order
Flatten(pages) ==
  IF pages = <<>> THEN <<>> ELSE Head(pages) \o Flatten(Tail(pages))

RECURSIVE SumLen(_)
\* the sum of the pages' record counts
SumLen(pages) ==
  IF pages = <<>> THEN 0 ELSE Len(Head(pages)) + SumLen(Tail(pages))

\* data holds, position by position, the records of the pages fetched by the
\* current run: as many as were returned, the k-th one being the k-th record
\* returned (same id, every field it keeps unchanged).
HoldsFetched(data) ==
  LET flat == Flatten(fetched) IN
  /\ Len(data) = Len(flat)
  /\ Len(data) = SumLen(fetched)
  /\ \A k \in 1..Len(data) :
       /\ data[k]["id"] = flat[k]["id"]
       /\ \A h \in DOMAIN data[k] :
            h \in DOMAIN flat[k] => data[k][h] = flat[k][h]

\* the destination key of the current run
RunKey == get_s3_key(endpoint, DESTINATION_S3_PATH, TIMESTAMP)

\* C1: the array handed to upload_data_to_s3, and the one a successful run
\* stored, is the concatenation of the fetched pages' records in page order
\* and within-page order: its length is the sum of the counts returned and
\* nothing is dropped, duplicated or reordered.
C1_PublishedIsConcatenation ==
  /\ pc = "upload" => HoldsFetched(all_data)
  /\ \A i \in 1..Len(writes) :
       /\ HoldsFetched(writes[i].body)
       /\ S3[writes[i].key] = <<writes[i].body>>

\* a two-page run with pages of one and two records was stored
C1_Witness ==
  /\ writes # <<>>
  /\ fetched = << <<recA>>, <<recB, recA>> >>
  /\ Len(writes[1].body) = 3

\* C2: during and after a run its destination key holds what it held when
\* the run started, or the complete Collection of all pages 1..total_pages;
\* never a part of it.
C2_NoPartialPublish ==
  endpoint # "" =>
    \/ S3[RunKey] = keyBefore
    \/ /\ discovery # None
       /\ Len(fetched) = total_pages
       /\ reqPages = 1..total_pages
       /\ Len(S3[RunKey]) = 1
       /\ HoldsFetched(S3[RunKey][1])

\* a run failed at page 2 with the records of page 1 gathered, nothing stored
C2_Witness ==
  /\ pc = "crashed"
  /\ total_pages = 2
  /\ page_no = 2
  /\ all_data # <<>>
  /\ S3[RunKey] = <<>>

\* C3: when the job has ended, every endpoint of the list has been run: an
\* endpoint's failure does not keep the later ones from running.
C3_LaterEndpointsStillRun ==
  pc \in {"done", "crashed"} =>
    \A i \in 1..Len(ENDPOINTS) : RunResult[i] \in {"Success", "Failure"}

\* C4: with max_retries = 3 and a 503 to every GET, main_request gives up
\* after exactly 4 GETs on the wire.
C4_FourGetsOnAll503 ==
  (pc = "returned" /\ max_retries = 3 /\ okSeen = None /\ all503 /\ r = None)
    => wireGets = 4

\* C5: an error status outside {500, 502, 503, 504} ends the call at once as
\* a failure: no GET is sent after it.
C5_OtherStatusNotRetried ==
  hardSeen => (pc # "request" /\ r = None /\ ~sentAfterHard)

\* C6: while main_request has seen at most max_retries failures, all of them
\* retryable (network errors, statuses of status_forcelist), it keeps
\* trying, and the 2xx response that follows is the value it returns.
C6_SucceedsAfterRetryableFailures ==
  (pc \in {"request", "returned"} /\ ~hardSeen
     /\ wireGets - Len(okSeen) <= max_retries)
    => IF okSeen = None THEN pc = "request"
                        ELSE pc = "returned" /\ r = okSeen

\* the answers 503, 503, 200 with max_retries >= 2: the 200 is returned
C6_Witness ==
  /\ pc = "returned"
  /\ max_retries >= 2
  /\ wireGets = 3
  /\ all503
  /\ okSeen # None
  /\ r = okSeen

\* C7: no exception leaves main_request, and a call that ends without having
\* received a 2xx response returns None.
C7_ExhaustionYieldsNone ==
  /\ exc # "RequestException"
  /\ (pc = "returned" /\ okSeen = None) => r = None

\* every attempt used up on network errors and error statuses: None returned
C7_Witness ==
  /\ pc = "returned"
  /\ r = None
  /\ attempt = max_retries
  /\ max_retries = 3
  /\ ~all503
  /\ ~hardSeen
  /\ wireGets = 16

\* C8: once the discovery call has returned None the run is over as a
\* Failure: no page request was sent and nothing was written.
C8_DiscoveryFailureEndsRun ==
  (site = "discovery" /\ r = None /\ pc # "request") =>
    /\ pc \in {"returned", "crashed"}
    /\ pc = "crashed" => RunResult[idx] = "Failure"
    /\ reqPages = {}
    /\ writes = <<>>
    /\ S3[RunKey] = keyBefore

\* the run of an endpoint ended on its failed discovery call
C8_Witness ==
  /\ site = "discovery"
  /\ r = None
  /\ pc = "crashed"
  /\ exc = "AttributeError"
  /\ RunResult[idx] = "Failure"

\* C9: once the main_request of page page_no has returned None the run is
\* over as a Failure: no later page was requested, upload_data_to_s3 is not
\* reached and nothing was written.
C9_PageFailureEndsRun ==
  (site = "page" /\ r = None /\ pc # "request") =>
    /\ pc \in {"returned", "crashed"}
    /\ pc = "crashed" => RunResult[idx] = "Failure"
    /\ \A p \in reqPages : p <= page_no
    /\ writes = <<>>
    /\ S3[RunKey] = keyBefore

\* the run ended on the failed fetch of page 1 of 2
C9_Witness ==
  /\ site = "page"
  /\ r = None
  /\ pc = "crashed"
  /\ page_no = 1
  /\ total_pages = 2
  /\ reqPages = {1}
  /\ RunResult[idx] = "Failure"

\* C10: after a discovery response with totalPages = 0 or without the field
\* the run sends no page request and goes straight to the upload of the
\* empty array; it fails only if the put_object itself fails, and otherwise
\* is a Success with the empty array stored.
C10_ZeroPagesPublishesEmpty ==
  (discovery # None /\ discovery[1].object \in {{}, {<<"totalPages", 0>>}}) =>
    /\ reqPages = {}
    /\ all_data = <<>>
    /\ pc \in {"upload", "wrapper", "done", "crashed"}
    /\ pc = "crashed" => exc = "ClientError"
    /\ pc \in {"wrapper", "done"} =>
         /\ RunResult[idx - 1] = "Success"
         /\ S3[RunKey] = << <<>> >>
         /\ writes = <<[run |-> idx - 1, key |-> RunKey, body |-> <<>>]>>

\* an endpoint without declared headers, its discovery response without the
\* field: the empty array is stored and the run is a Success
C10_Witness ==
  /\ pc = "done"
  /\ endpoint = "outcomes"
  /\ discovery = <<ObjectBody({})>>
  /\ RunResult[idx - 1] = "Success"
  /\ S3[RunKey] = << <<>> >>

\* the destination key of the process that ran before
PrevKey == prevRun[1].key

JsonKeyOf(key, name) ==
  /\ Len(key) >= 6
  /\ key[1] = DESTINATION_S3_PATH
  /\ key[2] = "GtR_"
  /\ key[Len(key) - 2] = "/gtr_"
  /\ key[Len(key) - 1] = name
  /\ key[Len(key)] = ".json"

\* C12 (as claimed): a successful run has put exactly one object, with every
\* page up to total_pages already appended, under the key
\* {destination_path}GtR_{timestamp}/gtr_{endpoint}.json; until the last
\* page is appended nothing is put.
C12_OneWriteAfterLastPage ==
  /\ RunResult[idx] = "Success" =>
       /\ Len(writes) = 1
       /\ putCalls = 1
       /\ Len(fetched) = total_pages
       /\ writes[1].body = all_data
       /\ JsonKeyOf(writes[1].key, endpoint)
  /\ Len(fetched) < total_pages => putCalls = 0

\* The same property for the run local_wrapper has just completed (idx
\* already points at the next endpoint).
Pipeline_OneWriteAfterLastPage ==
  /\ (pc = "wrapper" /\ idx > 1 /\ RunResult[idx - 1] = "Success") =>
       /\ Len(writes) = 1
       /\ putCalls = 1
       /\ Len(fetched) = total_pages
       /\ writes[1].body = all_data
       /\ JsonKeyOf(writes[1].key, endpoint)
  /\ (pc \in {"request", "returned"} /\ Len(fetched) < total_pages) => putCalls = 0

\* the field names declared for endpoint e
DeclaredFields(e) ==
  {ENDPOINT_HEADERS[e][i] : i \in 1..Len(ENDPOINT_HEADERS[e])}

\* projected is record rec cut to the fields declared for e: exactly those
\* keys, rec's value where rec has the field, the absent marker elsewhere
IsProjection(projected, rec, e) ==
  /\ DOMAIN projected = DeclaredFields(e)
  /\ \A h \in DeclaredFields(e) :
       projected[h] = IF h \in DOMAIN rec THEN rec[h] ELSE NoneValue

\* C13: for an endpoint with declared headers, every record accumulated (and
\* every record stored) is the projection of the fetched record at the same
\* position: its keys are exactly the declared fields, each carrying the
\* record's value or the absent marker.
C13_ProjectionHasDeclaredKeys ==
  endpoint \in DOMAIN ENDPOINT_HEADERS =>
    LET flat == Flatten(fetched) IN
    /\ Len(all_data) = Len(flat)
    /\ \A k \in 1..Len(all_data) : IsProjection(all_data[k], flat[k], endpoint)
    /\ \A i \in 1..Len(writes) :
         /\ Len(writes[i].body) = Len(flat)
         /\ \A k \in 1..Len(flat) :
              IsProjection(writes[i].body[k], flat[k], endpoint)

\* a stored collection with a record that lacked a declared field (recB has
\* no addresses) and one that carried an undeclared field (recA's href)
C13_Witness ==
  /\ endpoint = "organisations"
  /\ Len(writes) = 1
  /\ fetched = << <<recB, recA>> >>
  /\ S3[RunKey] = <<all_data>>
  /\ all_data[1] = [id |-> "2", name |-> "b", addresses |-> NoneValue]
  /\ all_data[2] = [id |-> "1", name |-> "a", addresses |-> "x"]

\* C14 (as claimed): for an endpoint without declared headers the records
\* of every page received are accumulated as they came, and no page with a
\* record in it makes the run fail.
C14_UndeclaredKeptVerbatim ==
  (endpoint # "" /\ endpoint \notin DOMAIN ENDPOINT_HEADERS) =>
    /\ all_data = Flatten(fetched)
    /\ ~(/\ pc = "crashed"
         /\ site = "page"
         /\ r # None
         /\ json_loads(r).exc = ""
         /\ json_loads(r).body.array # <<>>)

\* C15: when put_object raises, the run of that endpoint is a Failure and
\* no other run is; put_object was called once by the run; the destination
\* key holds what it held when the run started.
C15_WriteFailureFailsRunOnce ==
  (pc = "crashed" /\ exc = "ClientError") =>
    /\ RunResult[idx] = "Failure"
    /\ \A j \in 1..Len(ENDPOINTS) :
         /\ j # idx => RunResult[j] # "Failure"
         /\ j < idx => RunResult[j] = "Success"
    /\ putCalls = 1
    /\ writes = <<>>
    /\ S3[s3_key] = keyBefore

\* the second run of an endpoint fails at the write with records to store:
\* the key still holds the first run's (different) object
C15_Witness ==
  /\ pc = "crashed"
  /\ exc = "ClientError"
  /\ idx = 2
  /\ RunResult = <<"Success", "Failure">>
  /\ all_data # <<>>
  /\ keyBefore # <<>>
  /\ keyBefore # <<all_data>>
  /\ S3[s3_key] = keyBefore
  /\ putCalls = 1

\* C16: the main_request calls of a run ask for no page, page 1, page 2,
\* ... in this order, none beyond total_pages; a page is asked for only when
\* every page before it has been received and appended; and while a run
\* sends requests every earlier endpoint's run has ended and no later one
\* has started.
C16_RequestsInOrder ==
  /\ \A i \in 1..Len(reqLog) : reqLog[i] = i - 1
  /\ Len(reqLog) <= total_pages + 1
  /\ (pc = "request" /\ site = "page") => Len(fetched) = page_no - 1
  /\ pc \in {"request", "returned"} =>
       /\ RunResult[idx] = "Running"
       /\ \A j \in 1..Len(ENDPOINTS) :
            /\ j < idx => RunResult[j] = "Success"
            /\ j > idx => RunResult[j] = "NotRun"

\* the second endpoint's run asks for its page 2, page 1 appended, the first
\* endpoint's run over
C16_Witness ==
  /\ pc = "request"
  /\ site = "page"
  /\ page_no = 2
  /\ reqLog = <<0, 1, 2>>
  /\ Len(fetched) = 1
  /\ RunResult = <<"Success", "Running">>

\* C17: the page count of a run is the one its discovery response gave (0
\* until then) whatever the pages say; the data accumulated comes from the
\* pages fetched in the loop alone; and the run that reaches the upload has
\* fetched pages 1..total_pages, after total_pages + 1 calls that sent a
\* request.
C17_PageCountFromDiscoveryOnly ==
  /\ discovery = None => (total_pages = 0 /\ all_data = <<>>)
  /\ (discovery # None /\ pc \in {"request", "returned", "upload", "crashed"}) =>
       total_pages = get_total_pages(discovery[1])
  /\ pc \in {"request", "returned", "upload", "crashed"} =>
       HoldsFetched(all_data)
  /\ pc = "upload" =>
       /\ Len(fetched) = total_pages
       /\ reqPages = 1..total_pages
       /\ Len(reqLog) = total_pages + 1
  /\ \A i \in 1..Len(writes) :
       /\ HoldsFetched(writes[i].body)
       /\ Len(reqLog) = total_pages + 1

\* discovery said two pages and carried a record itself; page 1 came back
\* without records, page 2 was still fetched, and what was stored is page
\* 2's records only
C17_Witness ==
  /\ Len(writes) = 1
  /\ discovery = <<DiscoveryBody(MaxPages)>>
  /\ total_pages = MaxPages
  /\ fetched[1] = <<>>
  /\ fetched[total_pages] = <<recA>>
  /\ reqLog[2] = 1
  /\ Len(reqLog) = total_pages + 1
  /\ SumLen(fetched) = 1
  /\ Len(writes[1].body) = 1

\* every element of log is larger than the one before it
StrictlyIncreasing(log) ==
  \A i \in 1..Len(log) - 1 : log[i] < log[i + 1]

\* C18 (as claimed): the log call for page page_no emits an event if and
\* only if floor(100 * page_no / total_pages) differs from the value returned
\* for the page before (from the initial None for page 1), and the events
\* emitted so far are strictly increasing.
C18_EventIffPercentageChanges ==
  /\ [](pc = "progress" => StrictlyIncreasing(emitted))
  /\ [][(pc = "progress" /\ page_no' = page_no + 1) =>
          ((emitted' # emitted) <=>
             ((page_no * 100) \div total_pages # prev_percentage))]_vars

\* The part of C18 the code keeps: the events emitted are strictly
\* increasing, and an event is emitted exactly when the value returned
\* differs from the one returned before.
Progress_EventsIncrease ==
  pc = "progress" =>
    /\ StrictlyIncreasing(emitted)
    /\ emitted # <<>> => emitted[Len(emitted)] = prev_percentage

\* C19: when main_request has returned a response whose body is not JSON
\* (it has a 2xx status, being returned), the next step of the run is its
\* failure with JSONDecodeError, without a request or a write; the job does
\* nothing after a failure; and the failed run has put nothing, its key holds
\* what it held before, and its last request is the one that was answered
\* that way.
C19_InvalidBodyEndsRun ==
  /\ [][(pc = "returned" /\ r # None /\ r[1].body.kind = "invalid") =>
          /\ pc' = "crashed"
          /\ exc' = "JSONDecodeError"
          /\ RunResult'[idx] = "Failure"
          /\ UNCHANGED <<S3, writes, putCalls, reqLog, reqPages, all_data>>]_vars
  /\ [][pc # "crashed"]_vars
  /\ []((pc = "crashed" /\ exc = "JSONDecodeError") =>
          /\ response_ok(r[1].status)
          /\ writes = <<>>
          /\ putCalls = 0
          /\ S3[RunKey] = keyBefore
          /\ Len(reqLog) = IF site = "discovery" THEN 1 ELSE page_no + 1)

\* page 1 of 2 came back with status 200 and a body that is not JSON: the
\* run has failed, page 2 was not asked for, nothing was put
C19_Witness ==
  /\ pc = "crashed"
  /\ exc = "JSONDecodeError"
  /\ site = "page"
  /\ r = <<[err |-> FALSE, status |-> 200, body |-> InvalidBody]>>
  /\ total_pages = 2
  /\ page_no = 1
  /\ reqLog = <<0, 1>>
  /\ putCalls = 0
  /\ S3[RunKey] = <<>>

\* what is left of a main_request call: the loop iterations not begun,
\* each worth a full adapter budget, and the adapter's budget in this one
Rank == (max_retries - attempt) * (max_retries + 1) + retry_total

\* C20: a main_request call is never past iteration max_retries of its
\* loop (the max_retries + 1 iterations are numbered from 0); what it
\* returns is None or a response with a successful status; no exception
\* leaves it; every GET that does not end the call brings it closer to its
\* end; and, every GET being answered, the call ends.
C20_MainRequestTerminates ==
  /\ [](attempt <= max_retries /\ Rank >= 0)
  /\ [](pc \in {"returned", "done"} =>
          (r = None \/ (~r[1].err /\ response_ok(r[1].status))))
  /\ [](pc = "crashed" => (r = None /\ exc = "AttributeError"))
  /\ [][(pc = "request" /\ pc' = "request") => Rank' < Rank]_vars
  /\ <>(pc # "request")

\* main_request(max_retries = 2) went through its three iterations, every
\* GET failing, and returned None
C20_Witness ==
  /\ wireGets > max_retries + 1
  /\ site = "direct"
  /\ pc = "returned"
  /\ max_retries = 2
  /\ attempt = max_retries
  /\ r = None

\* C21: every progress event carries a value from 0 to 100, and once the
\* log call of the last page (page total_pages, total_pages >= 1) is done
\* the last event emitted is 100.
C21_LastEventIsHundred ==
  pc = "progress" =>
    /\ \A i \in 1..Len(emitted) : 0 <= emitted[i] /\ emitted[i] <= 100
    /\ page_no > total_pages =>
         /\ emitted # <<>>
         /\ emitted[Len(emitted)] = 100
         /\ prev_percentage = 100

\* three pages, all logged: 33, 66, then 100
C21_Witness ==
  /\ pc = "progress"
  /\ total_pages = 3
  /\ page_no = 4
  /\ emitted = <<33, 66, 100>>

\* The same property where the job publishes: the run that reaches the
\* upload after at least one page, and the run that has stored its object.
Pipeline_LastEventIsHundred ==
  /\ \A i \in 1..Len(emitted) : 0 <= emitted[i] /\ emitted[i] <= 100
  /\ ((pc = "upload" \/ writes # <<>>) /\ total_pages >= 1) =>
       /\ emitted # <<>>
       /\ emitted[Len(emitted)] = 100

====
